---- MODULE Spec2Model ----
(***************************************************************************)
(* Overlay: the event bridge (skyrim-console-executor.py) that polls the   *)
(* overlay state file and queues console commands, and the key injector    *)
(* (send_keys.py) that delivers a text payload to a foreign window.        *)
(*                                                                         *)
(* Strings whose characters matter (results, timestamps, identity keys,    *)
(* payloads) are sequences of one-character strings, so that strip(),      *)
(* f-string formatting and unicode_escape are computed, not assumed.       *)
(***************************************************************************)
EXTENDS Integers, Sequences, FiniteSets, TLC

VARIABLES
    \* ---- event bridge (ConsoleCommandExecutor) ----
    pc,                 \* position of run(): start, checkdir, poll, or a final one
    optionsFile,        \* content of OPTIONS_FILE (wheel-options.json)
    ACTION_MAPPINGS,    \* module-level dict: name -> [command, description]
    processed_results,  \* self.processed_results
    last_result,        \* self.last_result (set in __init__, never assigned again)
    dataFile,           \* content of DATA_FILE, written by the overlay (producer)
    queueFile,          \* content of COMMAND_QUEUE_FILE: chunks written, in order
    last,               \* what the most recent poll cycle did
    hist,               \* history: per (result, timestamp) pair, lines appended / appends failed
    observed,           \* poll cycles that have read the current content of DATA_FILE
    faults,             \* queue-file appends that have failed so far
    restarts,           \* times the bridge process was started again
    fresh,              \* the running process has not yet polled a mapped event
    handed,             \* commands process_result has passed to execute_console_command
    \* ---- direct-execution bridge (SkyrimModBridge), polling the same file ----
    bridge,             \* its processed_results and last_result, what its most recent
                        \* cycle returned, and the commands it has executed
    \* ---- key injector (send_keys.py) ----
    kpc,                \* position of the script
    keys,               \* args.keys
    has_win32gui,       \* whether win32gui could be imported
    handle,             \* the located window's handle: "none", "valid", "invalid"
    clipboard,          \* system clipboard: <<>> until set, then <<the text copied>>
    sent,               \* calls made to send_keys, in order
    foreground,         \* "none", then "ok" or "failed": how bringing the window forward went
    ending,             \* "running", then how the script ended
    steps,              \* phases the script has entered, in order
    exitCode            \* -1 while running, then the exit code, 0 or 1

bvars == <<pc, optionsFile, ACTION_MAPPINGS, processed_results, last_result, dataFile,
           queueFile, last, hist, observed, faults, restarts, fresh, handed, bridge>>
kvars == <<kpc, keys, has_win32gui, handle, clipboard, sent, foreground, ending,
           steps, exitCode>>
vars == <<bvars, kvars>>

(***************************************************************************)
(* Bounds of the model.                                                    *)
(***************************************************************************)
\* poll cycles that may observe one content of the state file
MaxObserve == 2
\* queue-file appends the environment lets fail in one run
MaxFaults == 1
MaxRestarts == 1
\* length of the key injector's payload
MaxKeys == 4

(***************************************************************************)
(* Characters and strings.                                                 *)
(***************************************************************************)
SP == " "
TAB == "\t"
NL == "\n"
CR == "\r"
BS == "\\"
\* what str.strip() removes
Whitespace == {SP, TAB, NL, CR}

RECURSIVE LStrip(_)
LStrip(s) == IF s # <<>> /\ Head(s) \in Whitespace THEN LStrip(Tail(s)) ELSE s

RECURSIVE RStrip(_)
RStrip(s) ==
    IF s # <<>> /\ s[Len(s)] \in Whitespace THEN RStrip(SubSeq(s, 1, Len(s) - 1)) ELSE s

\* str.strip()
Strip(s) == RStrip(LStrip(s))

Contains(s, c) == \E i \in 1..Len(s) : s[i] = c

DigitChars == <<"0", "1", "2", "3", "4", "5", "6", "7", "8", "9">>

\* decimal rendering of a non-negative int, as an f-string renders it
RECURSIVE IntStr(_)
IntStr(n) ==
    IF n < 10 THEN <<DigitChars[n + 1]>>
    ELSE IntStr(n \div 10) \o <<DigitChars[(n % 10) + 1]>>

(***************************************************************************)
(* JSON values of the state file.  A timestamp is any JSON scalar: here an *)
(* int, a string, or missing (data.get("timestamp") is then None).         *)
(***************************************************************************)
TsInt(n) == [t |-> "int", n |-> n, s |-> <<>>]
TsStr(s) == [t |-> "str", n |-> 0, s |-> s]
TsNone == [t |-> "none", n |-> 0, s |-> <<>>]

\* f"{timestamp}"
FormatTimestamp(ts) ==
    CASE ts.t = "int" -> IntStr(ts.n)
      [] ts.t = "str" -> ts.s
      [] OTHER -> <<"N", "o", "n", "e">>

\* A content of DATA_FILE.  kind:
\*   absent       the file does not exist
\*   unreadable   open() or read() raises OSError
\*   unparseable  json.load raises JSONDecodeError
\*   falsy        valid JSON that is falsy: {}, [], 0, "", null, false
\*   nonobject    valid JSON, truthy, not an object: [1], "x", 7
\*   badresult    an object whose "result" is not a string: 5, null
\*   event        an object whose "result" is a string (or is missing: "" then)
Doc(kind) == [kind |-> kind, result |-> <<>>, timestamp |-> TsNone]
Event(result, timestamp) == [kind |-> "event", result |-> result, timestamp |-> timestamp]

\* what read_data_file returns when there is nothing to process
None == Doc("None")

(***************************************************************************)
(* wheel-options.json.  kind: missing, malformed (not JSON, or not an      *)
(* object), or ok with its "options" array.  An option with complete =     *)
(* FALSE lacks one of the fields name, command, description.               *)
(***************************************************************************)
Option(name, command) == [name |-> name, command |-> command, complete |-> TRUE]
BadOption(name) == [name |-> name, command |-> "", complete |-> FALSE]
OptionsDoc(kind, options) == [kind |-> kind, options |-> options]

EmptyMap == [k \in {} |-> k]
Put(m, k, v) == [x \in DOMAIN m \cup {k} |-> IF x = k THEN v ELSE m[x]]

\* the for loop of load_action_mappings: entries are stored one by one, and the
\* first option lacking a field raises KeyError with the earlier ones stored
RECURSIVE LoadOptions(_, _)
LoadOptions(options, mappings) ==
    IF options = <<>> THEN [ok |-> TRUE, mappings |-> mappings]
    ELSE IF ~Head(options).complete THEN [ok |-> FALSE, mappings |-> mappings]
    ELSE LoadOptions(Tail(options),
                     Put(mappings, Head(options).name,
                         [command |-> Head(options).command]))

\* faulty variant: the except branch falls through to "return True"
load_action_mappings_swallow(file, mappings) ==
    IF file.kind # "ok" THEN [ok |-> TRUE, mappings |-> mappings]
    ELSE [LoadOptions(file.options, mappings) EXCEPT !.ok = TRUE]

\* load_action_mappings(): [ok |-> the value returned, mappings |-> ACTION_MAPPINGS after]
load_action_mappings(file, mappings) ==
    IF file.kind # "ok" THEN [ok |-> FALSE, mappings |-> mappings]
    ELSE LoadOptions(file.options, mappings)

(***************************************************************************)
(* ConsoleCommandExecutor                                                  *)
(***************************************************************************)
\* len(self.processed_results) > 100, and the [-100:] that follows
Cap == 100

\* read_data_file(): the parsed JSON, or None
read_data_file(file) ==
    IF file.kind \in {"absent", "unreadable", "unparseable"} THEN None ELSE file

\* "if data:" in run()
Truthy(data) == data.kind \in {"nonobject", "badresult", "event"}

\* data.get("result", "").strip() raises AttributeError: data has no get, or
\* the result has no strip
Raises(data) == data.kind \in {"nonobject", "badresult"}

\* result_key = f"{result}_{timestamp}"
result_key(result, timestamp) == result \o <<"_">> \o FormatTimestamp(timestamp)

\* the (result, timestamp) pair an event stands for
PairOf(data) == [result |-> Strip(data.result), timestamp |-> data.timestamp]

\* f.write(cmd + '\n') for each command
RECURSIVE WriteLines(_, _)
WriteLines(file, commands) ==
    IF commands = <<>> THEN file
    ELSE WriteLines(file \o <<Head(commands), NL>>, Tail(commands))

\* faulty variant: the queue file is opened with mode 'w'
write_command_queue_truncating(file, commands, ok) ==
    IF ok THEN [file |-> WriteLines(<<>>, commands), ret |-> TRUE]
    ELSE [file |-> file, ret |-> FALSE]

\* write_command_queue(commands): ok is whether mkdir, open and write succeed
write_command_queue(file, commands, ok) ==
    IF ok THEN [file |-> WriteLines(file, commands), ret |-> TRUE]
    ELSE [file |-> file, ret |-> FALSE]

\* execute_console_command(command)
execute_console_command(file, command, ok) == write_command_queue(file, <<command>>, ok)

\* faulty variant: the set is never trimmed
KeepRecent_never(s, first) == s

\* set(list(s)[-100:]) where s has just grown by at most one element: the
\* element that list(s) yields first is dropped once s holds more than Cap.
\* The iteration order of a set of str is not fixed by the program.
KeepRecent(s, first) == IF Cardinality(s) > Cap THEN s \ {first} ELSE s

\* faulty variant: the duplicate test is missing
IsDuplicate_never(key, processed) == FALSE

\* the elements list(s) may yield first, s being the processed set with key
\* added: any of them (only looked at when the set is over Cap)
FirstListed(processed, key) ==
    IF Cardinality(processed \cup {key}) > Cap THEN processed \cup {key} ELSE {key}

\* "if result_key in self.processed_results"
IsDuplicate(key, processed) == key \in processed

\* "if result in ACTION_MAPPINGS"
IsMapped(result, mappings) == result \in DOMAIN mappings

NoCall == [ret |-> "nocall", emitted |-> <<>>, io |-> FALSE, wrote |-> FALSE, diag |-> FALSE]

\* faulty variant: a result with no mapping is passed on to the console as the
\* "help" command instead of being reported
process_result_unmapped_queued(data, ok, first) ==
    LET result == Strip(data.result)
        key == result_key(result, data.timestamp)
        mapped == IsMapped(result, ACTION_MAPPINGS)
        command == IF mapped THEN ACTION_MAPPINGS[result].command ELSE "help"
        w == execute_console_command(queueFile, command, ok)
    IN  IF IsDuplicate(key, processed_results) \/ result = <<>>
        THEN [ret |-> "False", processed |-> processed_results, queue |-> queueFile,
              emitted |-> <<>>, io |-> FALSE, wrote |-> FALSE, diag |-> FALSE]
        ELSE [ret |-> IF mapped THEN "True" ELSE "False",
              processed |-> IF mapped
                            THEN KeepRecent(processed_results \cup {key}, first)
                            ELSE processed_results,
              queue |-> w.file, emitted |-> <<command>>, io |-> TRUE,
              wrote |-> w.ret, diag |-> FALSE]

\* faulty variant: the key is added before the empty test is made, so a call
\* skipped for its empty result marks the key as processed
process_result_marks_empty(data, ok, first) ==
    LET result == Strip(data.result)
        key == result_key(result, data.timestamp)
        skipped == [ret |-> "False", processed |-> processed_results,
                    queue |-> queueFile, emitted |-> <<>>, io |-> FALSE,
                    wrote |-> FALSE, diag |-> FALSE]
    IN  IF IsDuplicate(key, processed_results) THEN skipped
        ELSE IF result = <<>>
        THEN [skipped EXCEPT !.processed = KeepRecent(processed_results \cup {key}, first)]
        ELSE IF IsMapped(result, ACTION_MAPPINGS) THEN
            LET command == ACTION_MAPPINGS[result].command
                w == execute_console_command(queueFile, command, ok)
            IN  [ret |-> "True",
                 processed |-> KeepRecent(processed_results \cup {key}, first),
                 queue |-> w.file, emitted |-> <<command>>, io |-> TRUE,
                 wrote |-> w.ret, diag |-> FALSE]
        ELSE [skipped EXCEPT !.diag = (result # last_result)]

\* faulty variant: the key is recorded only when the append wrote its line,
\* so that a failed append is tried again
process_result_retry_failed(data, ok, first) ==
    LET result == Strip(data.result)
        key == result_key(result, data.timestamp)
        skipped == [ret |-> "False", processed |-> processed_results,
                    queue |-> queueFile, emitted |-> <<>>, io |-> FALSE,
                    wrote |-> FALSE, diag |-> FALSE]
    IN  IF IsDuplicate(key, processed_results) THEN skipped
        ELSE IF result = <<>> THEN skipped
        ELSE IF IsMapped(result, ACTION_MAPPINGS) THEN
            LET command == ACTION_MAPPINGS[result].command
                w == execute_console_command(queueFile, command, ok)
            IN  [ret |-> IF w.ret THEN "True" ELSE "False",
                 processed |-> IF w.ret
                               THEN KeepRecent(processed_results \cup {key}, first)
                               ELSE processed_results,
                 queue |-> w.file, emitted |-> <<command>>, io |-> TRUE,
                 wrote |-> w.ret, diag |-> FALSE]
        ELSE [skipped EXCEPT !.diag = (result # last_result)]

\* process_result(data) for an object with a string result.
\*   ok     whether the queue append succeeds, if one is made
\*   first  the element list(self.processed_results) yields first
\* Gives the value returned, the processed set and queue file after the call,
\* the commands handed to execute_console_command, whether the queue file was
\* written to (io: the write was attempted), and whether the "No action
\* mapped" diagnostic was printed.
process_result(data, ok, first) ==
    LET result == Strip(data.result)
        timestamp == data.timestamp
        key == result_key(result, timestamp)
        skipped == [ret |-> "False", processed |-> processed_results,
                    queue |-> queueFile, emitted |-> <<>>, io |-> FALSE,
                    wrote |-> FALSE, diag |-> FALSE]
    IN  IF IsDuplicate(key, processed_results) THEN skipped
        ELSE IF result = <<>> THEN skipped
        ELSE IF IsMapped(result, ACTION_MAPPINGS) THEN
            LET command == ACTION_MAPPINGS[result].command
                w == execute_console_command(queueFile, command, ok)
            IN  [ret |-> "True",
                 processed |-> KeepRecent(processed_results \cup {key}, first),
                 queue |-> w.file, emitted |-> <<command>>, io |-> TRUE,
                 wrote |-> w.ret, diag |-> FALSE]
        ELSE [skipped EXCEPT !.diag = (result # last_result)]

\* Python's None as the value of self.last_result: equal to no str
PyNone == <<"<None>">>

(***************************************************************************)
(* skyrim-mod-bridge.py, the direct-execution variant.  It loads the same  *)
(* options file with the same code, so ACTION_MAPPINGS stands for its      *)
(* mapping table too.                                                      *)
(***************************************************************************)
\* SkyrimModBridge.__init__
SkyrimModBridge ==
    [processed_results |-> {}, last_result |-> PyNone, ret |-> "nocall", executed |-> <<>>]

\* SkyrimModBridge.execute_console_command(command): prints, returns True
SkyrimModBridge_execute_console_command(command) == TRUE

\* SkyrimModBridge.process_result(data) for an object with a string result.
\*   first  the element list(self.processed_results) yields first
\* Gives the value returned, the processed set after the call and the
\* commands handed to execute_console_command.
SkyrimModBridge_process_result(data, first) ==
    LET result == Strip(data.result)
        timestamp == data.timestamp
        key == result_key(result, timestamp)
        skipped == [ret |-> "False", processed |-> bridge.processed_results,
                    executed |-> <<>>]
    IN  IF IsDuplicate(key, bridge.processed_results) THEN skipped
        ELSE IF result = <<>> THEN skipped
        ELSE IF IsMapped(result, ACTION_MAPPINGS) THEN
            LET command == ACTION_MAPPINGS[result].command
                done == SkyrimModBridge_execute_console_command(command)
            IN  [ret |-> "True",
                 processed |-> KeepRecent(bridge.processed_results \cup {key}, first),
                 executed |-> <<command>>]
        ELSE skipped

\* the history of a pair after a call that made an append for it (made) which
\* did or did not write its line (wrote)
Noted(h, pair, made, wrote) ==
    LET old == IF pair \in DOMAIN h THEN h[pair] ELSE [lines |-> 0, fails |-> 0]
    IN  Put(h, pair, [lines |-> old.lines + (IF made /\ wrote THEN 1 ELSE 0),
                      fails |-> old.fails + (IF made /\ ~wrote THEN 1 ELSE 0)])

(***************************************************************************)
(* The files the bridge is given.                                          *)
(***************************************************************************)
Results == {<<"a">>, <<"b", SP>>, <<"x">>, <<>>}
Timestamps == {TsInt(1), TsInt(2), TsStr(<<"1">>)}
Docs ==
    {Doc(k) : k \in {"absent", "unreadable", "unparseable", "falsy", "nonobject", "badresult"}}
    \cup {Event(r, t) : r \in Results, t \in Timestamps}

OptionsFiles ==
    { OptionsDoc("missing", <<>>),
      OptionsDoc("malformed", <<>>),
      OptionsDoc("ok", <<>>),
      OptionsDoc("ok", <<Option(<<"a">>, "tgm"), Option(<<"b">>, "tcl")>>),
      OptionsDoc("ok", <<Option(<<"a">>, "tgm"), BadOption(<<"b">>)>>) }

(***************************************************************************)
(* run()                                                                   *)
(***************************************************************************)
BridgeInit ==
    /\ pc = "start"
    /\ optionsFile \in OptionsFiles
    /\ ACTION_MAPPINGS = EmptyMap
    /\ processed_results = {}
    /\ last_result = PyNone
    /\ dataFile = Doc("absent")
    /\ queueFile = <<>>
    /\ last = NoCall
    /\ hist = EmptyMap
    /\ observed = 0
    /\ faults = 0
    /\ restarts = 0
    /\ fresh = TRUE
    /\ handed = <<>>
    /\ bridge = SkyrimModBridge

\* lines 124-127: load the mappings, return if that fails
Load ==
    /\ pc = "start"
    /\ LET r == load_action_mappings(optionsFile, ACTION_MAPPINGS)
       IN  /\ ACTION_MAPPINGS' = r.mappings
           /\ pc' = IF r.ok THEN "checkdir" ELSE "load_failed"
    /\ UNCHANGED <<optionsFile, processed_results, last_result, dataFile, queueFile, last,
                   hist, observed, faults, restarts, fresh, handed, bridge, kvars>>

\* lines 135-138: return if the directory of DATA_FILE does not exist
CheckDir ==
    /\ pc = "checkdir"
    /\ \E exists \in BOOLEAN :
          /\ ~exists => dataFile.kind = "absent"
          /\ pc' = IF exists THEN "poll" ELSE "no_dir"
    /\ UNCHANGED <<optionsFile, ACTION_MAPPINGS, processed_results, last_result,
                   dataFile, queueFile, last, hist, observed, faults, restarts, fresh, handed, bridge, kvars>>

\* lines 153-165: one turn of the while loop: read_data_file, process_result if
\* the data is truthy, sleep; an exception out of process_result ends the loop.
\* mayFail is whether the environment may let the queue append fail.
Poll(mayFail) ==
    /\ pc = "poll"
    /\ observed < MaxObserve
    /\ observed' = observed + 1
    /\ LET data == read_data_file(dataFile)
       IN  IF ~Truthy(data) THEN
               /\ pc' = "poll"
               /\ last' = NoCall
               /\ bridge' = [bridge EXCEPT !.ret = "nocall"]
               /\ UNCHANGED <<processed_results, queueFile, hist, faults, fresh, handed>>
           ELSE IF Raises(data) THEN
               /\ pc' = "crashed"
               /\ last' = [NoCall EXCEPT !.ret = "raised"]
               /\ bridge' = [bridge EXCEPT !.ret = "raised"]
               /\ UNCHANGED <<processed_results, queueFile, hist, faults, fresh, handed>>
           ELSE
               \E ok \in (IF mayFail THEN BOOLEAN ELSE {TRUE}),
                  first \in FirstListed(processed_results,
                                        result_key(Strip(data.result), data.timestamp)) :
                   LET r == process_result(data, ok, first)
                       m == SkyrimModBridge_process_result(data, first)
                   IN  /\ pc' = "poll"
                       /\ handed' = handed \o r.emitted
                       /\ bridge' = [bridge EXCEPT !.ret = m.ret,
                                                   !.processed_results = m.processed,
                                                   !.executed = @ \o m.executed]
                       /\ processed_results' = r.processed
                       /\ queueFile' = r.queue
                       /\ last' = [ret |-> r.ret, emitted |-> r.emitted, io |-> r.io,
                                   wrote |-> r.wrote, diag |-> r.diag]
                       /\ hist' = IF IsMapped(Strip(data.result), ACTION_MAPPINGS)
                                  THEN Noted(hist, PairOf(data), r.io, r.wrote)
                                  ELSE hist
                       /\ faults' = faults + (IF r.io /\ ~r.wrote THEN 1 ELSE 0)
                       /\ fresh' = (fresh /\ ~IsMapped(Strip(data.result), ACTION_MAPPINGS))
    /\ UNCHANGED <<optionsFile, ACTION_MAPPINGS, last_result, dataFile, restarts, kvars>>

\* lines 162-163: KeyboardInterrupt ends the loop
Stop ==
    /\ pc = "poll"
    /\ pc' = "stopped"
    /\ UNCHANGED <<optionsFile, ACTION_MAPPINGS, processed_results, last_result,
                   dataFile, queueFile, last, hist, observed, faults, restarts, fresh, handed, bridge, kvars>>

Running == pc \in {"start", "checkdir", "poll"}

\* the overlay rewrites the state file
Produce ==
    /\ Running
    /\ \E d \in Docs :
          /\ d # dataFile
          /\ dataFile' = d
    /\ observed' = 0
    /\ UNCHANGED <<pc, optionsFile, ACTION_MAPPINGS, processed_results, last_result,
                   queueFile, last, hist, faults, restarts, fresh, handed, bridge, kvars>>

\* the overlay writes the next result, with the next timestamp, once the bridge
\* has seen the current one: Cap + 1 results in all, one more than the
\* processed set holds
ProduceFresh ==
    /\ Running
    /\ dataFile.kind = "absent" \/ observed > 0
    /\ LET n == IF dataFile.kind = "absent" THEN 0 ELSE dataFile.timestamp.n
       IN  /\ n <= Cap
           /\ dataFile' = Event(<<"a">>, TsInt(n + 1))
    /\ observed' = 0
    /\ UNCHANGED <<pc, optionsFile, ACTION_MAPPINGS, processed_results, last_result,
                   queueFile, last, hist, faults, restarts, fresh, handed, bridge, kvars>>

PollAny == Poll(faults < MaxFaults)

\* the queue file stays writable until the processed set is about to reach the cap
PollAtCap == Poll(faults < MaxFaults /\ Cardinality(processed_results) >= Cap - 1)

KeysIdle ==
    /\ kpc = "idle"
    /\ keys = <<>>
    /\ has_win32gui = FALSE
    /\ handle = "none"
    /\ clipboard = <<>>
    /\ sent = <<>>
    /\ foreground = "none"
    /\ ending = "running"
    /\ steps = <<>>
    /\ exitCode = -1

Init == BridgeInit /\ KeysIdle

Next == Load \/ CheckDir \/ PollAny \/ Stop \/ Produce

Spec == Init /\ [][Next]_vars

NextCap == Load \/ CheckDir \/ PollAtCap \/ Stop \/ ProduceFresh

SpecCap == Init /\ [][NextCap]_vars

\* the loop of lines 153-160 with no KeyboardInterrupt: "while True" with a
\* sleep of 0.5 s takes its next turn whenever it can, hence weak fairness of
\* the poll cycle
NextLive == Load \/ CheckDir \/ PollAtCap \/ ProduceFresh

SpecLive == Init /\ [][NextLive]_vars /\ WF_vars(PollAtCap)

\* faulty variant: the processed set is kept across the restart
Restart_persisted ==
    /\ pc # "idle"
    /\ restarts < MaxRestarts
    /\ restarts' = restarts + 1
    /\ pc' = "start"
    /\ ACTION_MAPPINGS' = EmptyMap
    /\ last_result' = PyNone
    /\ last' = NoCall
    /\ observed' = 0
    /\ fresh' = TRUE
    /\ handed' = <<>>
    /\ bridge' = SkyrimModBridge
    /\ UNCHANGED <<optionsFile, processed_results, dataFile, queueFile, hist, faults, kvars>>

\* the process ends (it returned, crashed or was killed) and the script is
\* started again: line 19 and __init__ (lines 38-41) run anew, the files stay
\* as they are
Restart ==
    /\ pc # "idle"
    /\ restarts < MaxRestarts
    /\ restarts' = restarts + 1
    /\ pc' = "start"
    /\ ACTION_MAPPINGS' = EmptyMap
    /\ processed_results' = {}
    /\ last_result' = PyNone
    /\ last' = NoCall
    /\ observed' = 0
    /\ fresh' = TRUE
    /\ handed' = <<>>
    /\ bridge' = SkyrimModBridge
    /\ UNCHANGED <<optionsFile, dataFile, queueFile, hist, faults, kvars>>

\* well-formed state files: a mapped or an unmapped result, two timestamps
EventDocs == {Event(r, t) : r \in {<<"a">>, <<"x">>}, t \in {TsInt(1), TsInt(2)}}

\* the overlay rewrites the state file with a well-formed event
ProduceEvent ==
    /\ Running
    /\ \E d \in EventDocs :
          /\ d # dataFile
          /\ dataFile' = d
    /\ observed' = 0
    /\ UNCHANGED <<pc, optionsFile, ACTION_MAPPINGS, processed_results, last_result,
                   queueFile, last, hist, faults, restarts, fresh, handed, bridge, kvars>>

NextRestart == Load \/ CheckDir \/ PollAny \/ Stop \/ ProduceEvent \/ Restart

SpecRestart == Init /\ [][NextRestart]_vars

(***************************************************************************)
(* send_keys.py                                                            *)
(***************************************************************************)
KeyChars == {"k", "n", "t", SP, TAB, NL, CR, BS}

RECURSIVE SeqsUpTo(_, _)
SeqsUpTo(S, n) ==
    IF n = 0 THEN {<<>>}
    ELSE LET shorter == SeqsUpTo(S, n - 1)
         IN  shorter \cup {Append(s, c) : s \in shorter, c \in S}

Payloads == SeqsUpTo(KeyChars, MaxKeys)

\* s.encode('utf-8').decode('unicode_escape') over KeyChars: \n, \t and \\ are
\* decoded, a backslash before a real newline is dropped with it, a backslash
\* before any other character stays, and a backslash that ends the string
\* raises UnicodeDecodeError
RECURSIVE UnicodeEscape(_)
UnicodeEscape(s) ==
    IF s = <<>> THEN [ok |-> TRUE, text |-> <<>>]
    ELSE IF Head(s) # BS THEN
        LET rest == UnicodeEscape(Tail(s))
        IN  [ok |-> rest.ok, text |-> <<Head(s)>> \o rest.text]
    ELSE IF Len(s) = 1 THEN [ok |-> FALSE, text |-> <<>>]
    ELSE LET c == s[2]
             rest == UnicodeEscape(SubSeq(s, 3, Len(s)))
             out == CASE c = "n" -> <<NL>>
                      [] c = "t" -> <<TAB>>
                      [] c = BS -> <<BS>>
                      [] c = NL -> <<>>
                      [] OTHER -> <<BS, c>>
         IN  [ok |-> rest.ok, text |-> out \o rest.text]

\* process_escape_sequences(s)
process_escape_sequences(s) == IF s = <<>> THEN [ok |-> TRUE, text |-> s] ELSE UnicodeEscape(s)

\* faulty variant: every test of line 96 made on args.keys
UseClipboard_raw(raw, text) ==
    \/ Contains(raw, NL)
    \/ Contains(raw, CR)
    \/ Strip(raw) # raw
    \/ Contains(raw, SP)
    \/ Contains(raw, TAB)

\* the condition of line 96, on args.keys (raw) and on text (unescaped)
UseClipboard(raw, text) ==
    \/ Contains(raw, NL)
    \/ Contains(raw, CR)
    \/ Strip(text) # text
    \/ Contains(text, SP)
    \/ Contains(raw, TAB)

\* send_keys('^v')
PasteShortcut == <<"^", "v">>

BridgeIdle ==
    /\ pc = "idle"
    /\ optionsFile = OptionsDoc("missing", <<>>)
    /\ ACTION_MAPPINGS = EmptyMap
    /\ processed_results = {}
    /\ last_result = PyNone
    /\ dataFile = Doc("absent")
    /\ queueFile = <<>>
    /\ last = NoCall
    /\ hist = EmptyMap
    /\ observed = 0
    /\ faults = 0
    /\ restarts = 0
    /\ fresh = TRUE
    /\ handed = <<>>
    /\ bridge = SkyrimModBridge

\* the script after argument parsing
KeysInit ==
    /\ BridgeIdle
    /\ kpc = "locate"
    /\ keys \in Payloads
    /\ has_win32gui \in BOOLEAN
    /\ handle = "none"
    /\ clipboard = <<>>
    /\ sent = <<>>
    /\ foreground = "none"
    /\ ending = "running"
    /\ steps = <<>>
    /\ exitCode = -1

\* leave the script with an exit code; how records what ended it
Exit(code, how) ==
    /\ kpc' = "exit"
    /\ exitCode' = code
    /\ ending' = how

\* the script goes on
Continue(to) ==
    /\ kpc' = to
    /\ UNCHANGED <<exitCode, ending>>

\* faulty variant: the window-not-found handler reports failure like the other
HandlerCode_all_fail(exc) == 1

\* lines 104-114: the exit code of the except clause that catches exc
HandlerCode(exc) == IF exc = "ElementNotFoundError" THEN 0 ELSE 1

\* faulty variant: the step that raised is tried again
Raise_retries(exc) ==
    /\ kpc' = kpc
    /\ UNCHANGED <<exitCode, ending>>

\* an exception raised inside the try block
Raise(exc) == Exit(HandlerCode(exc), exc)

\* lines 59-64: connect to the window by class name and take its handle
Locate ==
    /\ kpc = "locate"
    /\ steps' = Append(steps, "locate")
    /\ \E outcome \in {"found", "ElementNotFoundError", "Exception"} :
          IF outcome = "found"
          THEN /\ \E h \in {"valid", "invalid"} : handle' = h
               /\ Continue("foreground")
          ELSE Raise(outcome) /\ UNCHANGED handle
    /\ UNCHANGED <<keys, has_win32gui, clipboard, sent, foreground, bvars>>

\* faulty variant: a failing set_focus is logged but abort stays False
Abort_win32_only(win32, h, raised) == win32 /\ (h # "valid" \/ raised)

\* lines 65-83: abort is set when the handle is invalid or the call raises
Abort(win32, h, raised) == IF win32 THEN (h # "valid" \/ raised) ELSE raised

\* lines 65-88: bring the window to the foreground; sys.exit(1) on abort
\* (SystemExit is not an Exception: no handler catches it).
\* raised: SetForegroundWindow or set_focus raises.
Foreground ==
    /\ kpc = "foreground"
    /\ steps' = Append(steps, "foreground")
    /\ \E raised \in BOOLEAN :
          /\ foreground' = IF raised \/ (has_win32gui /\ handle # "valid")
                           THEN "failed" ELSE "ok"
          /\ IF Abort(has_win32gui, handle, raised)
             THEN Exit(1, "abort")
             ELSE Continue("settle")
    /\ UNCHANGED <<keys, has_win32gui, handle, clipboard, sent, bvars>>

\* lines 90-92: sleep, then read the window's title (the window may be gone)
Settle ==
    /\ kpc = "settle"
    /\ steps' = Append(steps, "settle")
    /\ \E outcome \in {"ok", "ElementNotFoundError", "Exception"} :
          IF outcome = "ok" THEN Continue("deliver") ELSE Raise(outcome)
    /\ UNCHANGED <<keys, has_win32gui, handle, clipboard, sent, foreground, bvars>>

\* lines 95-97 and 100-103: unescape, choose the strategy, then either copy
\* the text to the clipboard or synthesise it as keys.  raised: the library
\* call (pyperclip.copy or send_keys) raises.
Deliver ==
    /\ kpc = "deliver"
    /\ LET u == process_escape_sequences(keys)
       IN  IF ~u.ok THEN
               /\ steps' = Append(steps, "deliver")
               /\ Raise("Exception")
               /\ UNCHANGED <<clipboard, sent>>
           ELSE IF UseClipboard(keys, u.text) THEN
               /\ steps' = steps \o <<"deliver", "copy">>
               /\ \E raised \in BOOLEAN :
                     IF raised
                     THEN Raise("Exception") /\ UNCHANGED clipboard
                     ELSE clipboard' = <<u.text>> /\ Continue("paste")
               /\ UNCHANGED sent
           ELSE
               /\ steps' = steps \o <<"deliver", "type">>
               /\ sent' = Append(sent, u.text)
               /\ \E raised \in BOOLEAN :
                     IF raised THEN Raise("Exception") ELSE Exit(0, "delivered")
               /\ UNCHANGED clipboard
    /\ UNCHANGED <<keys, has_win32gui, handle, foreground, bvars>>

\* lines 98-99 and 103: send the paste shortcut
Paste ==
    /\ kpc = "paste"
    /\ steps' = Append(steps, "paste")
    /\ sent' = Append(sent, PasteShortcut)
    /\ \E raised \in BOOLEAN :
          IF raised THEN Raise("Exception") ELSE Exit(0, "delivered")
    /\ UNCHANGED <<keys, has_win32gui, handle, clipboard, foreground, bvars>>

KeysNext == Locate \/ Foreground \/ Settle \/ Deliver \/ Paste

SpecKeys == KeysInit /\ [][KeysNext]_vars

(***************************************************************************)
(* Properties of the event bridge.                                         *)
(***************************************************************************)
\* a step that is one poll cycle
PollStep == pc = "poll" /\ observed' = observed + 1

\* a poll cycle that calls process_result and gets a value back
CallStep == PollStep /\ dataFile.kind = "event"

\* the identity key process_result computes for the current state file
KeyOfFile == result_key(Strip(dataFile.result), dataFile.timestamp)

\* the current state file holds an event with a mapped result
MappedFile ==
    dataFile.kind = "event" /\ Strip(dataFile.result) \in DOMAIN ACTION_MAPPINGS

\* C1: every (result, timestamp) pair with a mapped result that a poll cycle
\* has processed has exactly one line in the queue file, however many cycles
\* observed it and however many events came before.  Pairs one of whose
\* appends failed are left out (failed appends are C8's subject), so a
\* violation never rests on a failed write.
C1_ExactlyOneLinePerPair ==
    \A p \in DOMAIN hist : hist[p].fails = 0 => hist[p].lines = 1

\* C2: a poll cycle whose event's identity key is already in the processed set
\* returns False and does no I/O: the queue file is not written, no command
\* is emitted, nothing is printed.
C2_DuplicateSkippedWithoutIO ==
    [][(CallStep /\ KeyOfFile \in processed_results)
        => /\ last'.ret = "False"
           /\ last'.emitted = <<>>
           /\ ~last'.io
           /\ ~last'.diag
           /\ queueFile' = queueFile]_vars

\* C2 witness: the state file was polled a second time, its key already
\* processed and its command already in the queue, and the call returned False
C2_Witness ==
    /\ MappedFile
    /\ observed = 2
    /\ KeyOfFile \in processed_results
    /\ last.ret = "False"
    /\ queueFile # <<>>

\* C3: a poll cycle whose event's trimmed result is not a key of the mapping
\* table (the empty result included) appends nothing to the queue file and
\* emits no command.
C3_UnmappedNeverQueued ==
    [][(CallStep /\ Strip(dataFile.result) \notin DOMAIN ACTION_MAPPINGS)
        => (queueFile' = queueFile /\ last'.emitted = <<>>)]_vars

\* C3 witness: a non-empty unmapped result was processed by a bridge that has
\* mappings and has queued a command before
C3_Witness ==
    /\ dataFile.kind = "event"
    /\ Strip(dataFile.result) = <<"x">>
    /\ DOMAIN ACTION_MAPPINGS # {}
    /\ observed > 0
    /\ last.ret = "False"
    /\ queueFile # <<>>

\* C7: the processed set never holds more than Cap entries once a
\* process_result call has ended.
C7_ProcessedSetBounded == Cardinality(processed_results) <= Cap

\* C7 witness: the 101st distinct key has been processed and the set holds Cap
C7_Witness ==
    /\ Cardinality(DOMAIN hist) > Cap
    /\ \A p \in DOMAIN hist : hist[p].lines + hist[p].fails > 0
    /\ Cardinality(processed_results) = Cap

\* C8: when the append of a command fails, the event's key is still added to
\* the processed set and the loop goes on; no later poll cycle that observes
\* an event whose append failed emits or appends its command again; and an
\* event with another identity and a mapped result is still appended.
C8_FailedAppendNotRetried ==
    [][/\ (CallStep /\ last'.io /\ ~last'.wrote)
           => (KeyOfFile \in processed_results' /\ pc' = "poll")
       /\ (CallStep /\ MappedFile /\ PairOf(dataFile) \in DOMAIN hist
              /\ hist[PairOf(dataFile)].fails > 0)
           => (last'.emitted = <<>> /\ queueFile' = queueFile)
       /\ (CallStep /\ MappedFile /\ KeyOfFile \notin processed_results /\ faults > 0)
           => /\ last'.io
              /\ last'.wrote =>
                    queueFile' = queueFile
                        \o <<ACTION_MAPPINGS[Strip(dataFile.result)].command, NL>>
      ]_vars

\* C9: a poll cycle that finds the state file absent, unreadable, unparseable
\* or not of the documented shape leaves the queue file and the processed set
\* as they were, and the loop goes on.
C9_BadPollIsNoEvent ==
    [][(PollStep /\ dataFile.kind # "event")
        => (pc' = "poll" /\ UNCHANGED <<queueFile, processed_results>>)]_vars

\* the options file cannot be loaded: it is missing or malformed, or one of
\* its options lacks a field
Unloadable(file) ==
    file.kind # "ok" \/ \E i \in 1..Len(file.options) : ~file.options[i].complete

\* C10: when the mapping file cannot be loaded the bridge never polls: run()
\* is at its start or has returned, the state file was never read, no command
\* was emitted or appended.
C10_NoPollingAfterConfigError ==
    Unloadable(optionsFile)
        => /\ pc \in {"start", "load_failed"}
           /\ observed = 0
           /\ last = NoCall
           /\ queueFile = <<>>
           /\ processed_results = {}

\* C10 witness: loading failed after an earlier option had been stored
C10_Witness ==
    /\ pc = "load_failed"
    /\ DOMAIN ACTION_MAPPINGS # {}
    /\ dataFile.kind = "event"

(***************************************************************************)
(* Properties of the key injector.                                         *)
(***************************************************************************)
InputSent == sent # <<>> \/ clipboard # <<>>

\* C4: input reaches the system (keys synthesised, paste shortcut sent,
\* clipboard written) only after the window was located and brought to the
\* foreground without error; a run that ends with the window not found or the
\* foregrounding failed has sent nothing.
C4_NoInputWithoutForeground ==
    /\ InputSent => (handle # "none" /\ foreground = "ok")
    /\ (kpc = "exit" /\ (handle = "none" \/ foreground = "failed")) => ~InputSent

\* C4 witness: set_focus raised (no win32gui) and the run ended with nothing sent
C4_Witness ==
    /\ kpc = "exit"
    /\ ~has_win32gui
    /\ foreground = "failed"
    /\ keys # <<>>
    /\ ~InputSent

StrategyChosen == Contains(steps, "copy") \/ Contains(steps, "type")

\* the shape the payload string itself has
RawShape(raw) ==
    \/ Contains(raw, NL)
    \/ Contains(raw, CR)
    \/ Strip(raw) # raw
    \/ Contains(raw, TAB)
    \/ Contains(raw, SP)

C6_ExitSignal ==
    /\ kpc # "exit" => (exitCode = -1 /\ ending = "running")
    /\ kpc = "exit" =>
          /\ ~ENABLED KeysNext
          /\ exitCode \in {0, 1}
          /\ exitCode = 0 <=> ending \in {"delivered", "ElementNotFoundError"}

\* C6 witness: the window went away after it was brought forward; exit code 0
C6_Witness ==
    /\ kpc = "exit"
    /\ ending = "ElementNotFoundError"
    /\ foreground = "ok"
    /\ exitCode = 0

(***************************************************************************)
(* Further properties of the event bridge.                                 *)
(***************************************************************************)
\* the current state file holds an event whose trimmed result is not empty
\* and has no mapping
UnmappedFile ==
    /\ dataFile.kind = "event"
    /\ Strip(dataFile.result) # <<>>
    /\ Strip(dataFile.result) \notin DOMAIN ACTION_MAPPINGS

\* C11: a poll cycle that observes the unmapped result the cycle before it
\* observed (the state file has not been rewritten in between) does not print
\* the "No action mapped" diagnostic again.
C11_DiagnosticNotRepeated ==
    [][(CallStep /\ UnmappedFile /\ observed >= 1) => ~last'.diag]_vars

\* p is a prefix of s
IsPrefix(p, s) == Len(p) <= Len(s) /\ SubSeq(s, 1, Len(p)) = p

\* a poll cycle whose process_result call returned True and whose append
\* wrote its line
Actuated == CallStep /\ last'.ret = "True" /\ last'.wrote

\* C12: the bridge only appends to the queue file: over every step the old
\* content is a prefix of the new content, a poll cycle that actuates an event
\* with a successful append extends the file by the command and one newline,
\* and no other step changes the file.
C12_QueueAppendOnly ==
    [][/\ IsPrefix(queueFile, queueFile')
       /\ Actuated =>
             queueFile' = queueFile
                 \o <<ACTION_MAPPINGS[Strip(dataFile.result)].command, NL>>
       /\ queueFile' # queueFile => Actuated]_vars

\* C12 witness: a second command was appended behind a first one
C12_Witness ==
    /\ Len(queueFile) = 4
    /\ queueFile[1] # queueFile[3]
    /\ last.ret = "True"
    /\ last.wrote

\* C13: a poll cycle that observes, for the first time, an event whose mapped
\* result was appended before under a different timestamp treats the event as
\* new: the call returns True and hands the command to the queue writer again.
C13_NewTimestampIsNewEvent ==
    [][(/\ CallStep
        /\ MappedFile
        /\ PairOf(dataFile) \notin DOMAIN hist
        /\ \E p \in DOMAIN hist :
              /\ p.result = Strip(dataFile.result)
              /\ p.timestamp # dataFile.timestamp
              /\ hist[p].lines > 0)
        => /\ last'.ret = "True"
           /\ last'.emitted = <<ACTION_MAPPINGS[Strip(dataFile.result)].command>>]_vars

\* C14: in a process started again, the first poll cycle that observes an
\* event with a mapped result actuates it, whatever was actuated before the
\* restart: the call returns True, hands the command to the queue writer, and
\* an append that succeeds adds the command's line to the queue file.
C14_RestartReplays ==
    [][(CallStep /\ MappedFile /\ fresh /\ restarts > 0)
        => LET command == ACTION_MAPPINGS[Strip(dataFile.result)].command
           IN  /\ processed_results = {}
               /\ last'.ret = "True"
               /\ last'.emitted = <<command>>
               /\ last'.wrote => queueFile' = queueFile \o <<command, NL>>]_vars

\* C14 witness: a pair actuated before the restart has been actuated again by
\* the first mapped poll after it, and has two lines in the queue file
C14_Witness ==
    /\ restarts > 0
    /\ MappedFile
    /\ observed = 1
    /\ last.ret = "True"
    /\ PairOf(dataFile) \in DOMAIN hist
    /\ hist[PairOf(dataFile)].lines = 2
    /\ hist[PairOf(dataFile)].fails = 0
    /\ Len(queueFile) = 4

\* C15: the identity key identifies the (result, timestamp) pair.  In every
\* process_result call, a pair processed before that has the key of the
\* current event is the current event's pair; and an event with a mapped
\* result whose pair was never processed before is not skipped.
C15_KeyIdentifiesPair ==
    [][/\ CallStep =>
             \A p \in DOMAIN hist :
                 result_key(p.result, p.timestamp) = KeyOfFile => p = PairOf(dataFile)
       /\ (CallStep /\ MappedFile /\ PairOf(dataFile) \notin DOMAIN hist)
             => last'.ret = "True"]_vars

\* C16: a key enters the processed set only in a poll cycle whose
\* process_result call returns True, and it is the key of that cycle's event;
\* a call that returns False leaves the set as it was; and every key the set
\* holds is the key of a processed pair whose trimmed result is not empty and
\* has a mapping.
C16_OnlyActuatedKeysRecorded ==
    [][/\ \A k \in processed_results' \ processed_results :
             CallStep /\ last'.ret = "True" /\ k = KeyOfFile
       /\ (CallStep /\ last'.ret = "False") => processed_results' = processed_results
       /\ \A k \in processed_results' :
             \E p \in DOMAIN hist' :
                 /\ result_key(p.result, p.timestamp) = k
                 /\ p.result # <<>>
                 /\ p.result \in DOMAIN ACTION_MAPPINGS']_vars

\* C16 witness: after an event was actuated, an event with an empty result
\* and a new timestamp was polled and skipped, and its key was not recorded
C16_Witness ==
    /\ dataFile.kind = "event"
    /\ Strip(dataFile.result) = <<>>
    /\ observed > 0
    /\ last.ret = "False"
    /\ processed_results # {}
    /\ KeyOfFile \notin processed_results

\* the loop is polling, the state file holds an event whose result has a
\* mapping and whose key is not in the processed set
Pending ==
    /\ pc = "poll"
    /\ MappedFile
    /\ KeyOfFile \notin processed_results

\* the state file has been polled, its command was emitted and its key is in
\* the processed set
Handled ==
    /\ observed >= 1
    /\ last.emitted # <<>>
    /\ KeyOfFile \in processed_results

\* C19: with a fair polling loop and no stop signal, a state file that holds
\* an event with a mapped result whose key is not in the processed set is
\* eventually polled with its command emitted and its key recorded (the
\* overlay replaces a state file only once the loop has polled it, so the
\* file keeps its content until then); and a poll cycle that observes content
\* the loop has polled before emits no command.
C19_EventuallyOnce ==
    /\ Pending ~> Handled
    /\ [][(CallStep /\ MappedFile /\ observed >= 1) => last'.emitted = <<>>]_vars

\* C20: the queue-file executor and the direct-execution bridge, polling the
\* same state file with the same mapping table and the same eviction choices,
\* agree after every poll cycle: the value the cycle returned (or that no call
\* was made, or that the call raised), the processed set, and the commands
\* handed to execute_console_command so far, in order.
C20_SameDecisions ==
    /\ bridge.ret = last.ret
    /\ bridge.processed_results = processed_results
    /\ bridge.executed = handed

\* C20 witness: both variants were handed the command of an event whose append
\* to the queue file failed, and both skipped it on the next poll
C20_Witness ==
    /\ MappedFile
    /\ observed = 2
    /\ faults > 0
    /\ hist[PairOf(dataFile)].fails = 1
    /\ last.ret = "False"
    /\ bridge.ret = "False"
    /\ Len(handed) > Len(queueFile) \div 2
    /\ bridge.executed = handed

(***************************************************************************)
(* Further properties of the key injector.                                 *)
(***************************************************************************)
\* the text holds a newline, a carriage return, a tab or a space
HasWhitespace(text) == \E i \in 1..Len(text) : text[i] \in {NL, CR, TAB, SP}

\* C17: text that holds whitespace is never synthesised as keys: every text
\* handed to the key synthesiser by the direct strategy holds no newline,
\* carriage return, tab or space, and a run that has chosen a strategy for a
\* payload whose unescaped text holds one has chosen clipboard-paste.
C17_NoWhitespaceTyped ==
    /\ Contains(steps, "type") => \A i \in 1..Len(sent) : ~HasWhitespace(sent[i])
    /\ (StrategyChosen /\ HasWhitespace(process_escape_sequences(keys).text))
          => Contains(steps, "copy")

\* the phases of a run that pastes, and of a run that types
PasteRun == <<"locate", "foreground", "settle", "deliver", "copy", "paste">>
TypeRun == <<"locate", "foreground", "settle", "deliver", "type">>

\* C18: the phases a run has entered are an initial part of locate,
\* foreground, settle, deliver followed by either copy and paste or type: each
\* phase at most once, in that order, one strategy only.  The paste shortcut
\* is sent only with the clipboard already set to the unescaped text, and it
\* is the only thing sent; a run whose copy raised has ended and sent nothing.
C18_LinearRun ==
    /\ IsPrefix(steps, PasteRun) \/ IsPrefix(steps, TypeRun)
    /\ Contains(steps, "paste") =>
          /\ clipboard = <<process_escape_sequences(keys).text>>
          /\ sent = <<PasteShortcut>>
    /\ (Contains(steps, "copy") /\ clipboard = <<>>) => (kpc = "exit" /\ sent = <<>>)
    /\ (Contains(steps, "copy") /\ ~Contains(steps, "paste") /\ kpc # "exit") =>
          (clipboard # <<>> /\ sent = <<>>)

\* C18 witness: a run went through every phase of the clipboard strategy and
\* ended with exit code 0
C18_Witness ==
    /\ steps = PasteRun
    /\ kpc = "exit"
    /\ exitCode = 0
    /\ clipboard # <<>>
    /\ sent = <<PasteShortcut>>

====
